---- MODULE Spec2Model ----
(***************************************************************************)
(* Model of tuning_app.py: the pitch estimator detect_pitch, the tuning    *)
(* comparator get_note_match, the meter clamp of create_tuning_meter and   *)
(* the Streamlit script main() with its recording loop.                    *)
(*                                                                         *)
(* Number representation.  Frequencies are integers in hundredths of a Hz  *)
(* (82.41 Hz is 8241).  A cents value is a record [kind, val]: kind is     *)
(* "finite", "-inf" or "nan" as for an IEEE double, and val is the value   *)
(* in units of 1/CentUnit cent.  Spectral magnitudes are exact elements    *)
(* a + b*sqrt(5) of Z[sqrt 5], written <<a, b>>; every cosine the window   *)
(* and the transform need for buffers of up to 6 samples lies there.       *)
(***************************************************************************)
EXTENDS Integers, Sequences, FiniteSets, TLC

(***************************************************************************)
(* Bounds of the model.                                                    *)
(***************************************************************************)
MaxBufLen == 5
RecLen == 4
MaxPending == 1
MaxDetune == 40
MaxQuarterCents == 70

Samples == {-1, 0, 1}

(***************************************************************************)
(* main(): audio parameters.                                               *)
(***************************************************************************)
SAMPLE_RATE == 44100

Rates == {SAMPLE_RATE, 48000}

(***************************************************************************)
(* Exact arithmetic in Z[sqrt 5].                                          *)
(***************************************************************************)
ZAdd(p, q) == <<p[1] + q[1], p[2] + q[2]>>

ZMul(p, q) == <<p[1] * q[1] + 5 * p[2] * q[2], p[1] * q[2] + p[2] * q[1]>>

ZScale(c, p) == <<c * p[1], c * p[2]>>

\* a + b*sqrt(5) > 0
ZPos(p) ==
    LET a == p[1]
        b == p[2]
    IN  IF a >= 0 /\ b >= 0 THEN a > 0 \/ b > 0
        ELSE IF a <= 0 /\ b <= 0 THEN FALSE
        ELSE IF a > 0 THEN a * a > 5 * b * b
        ELSE 5 * b * b > a * a

ZGt(p, q) == ZPos(<<p[1] - q[1], p[2] - q[2]>>)

\* CosTable[D][j + 1] = 4 * cos(2 * pi * j / D), for D in 1..6 and j in 0..D-1
CosTable ==
    << << <<4, 0>> >>,
       << <<4, 0>>, <<-4, 0>> >>,
       << <<4, 0>>, <<-2, 0>>, <<-2, 0>> >>,
       << <<4, 0>>, <<0, 0>>, <<-4, 0>>, <<0, 0>> >>,
       << <<4, 0>>, <<-1, 1>>, <<-1, -1>>, <<-1, -1>>, <<-1, 1>> >>,
       << <<4, 0>>, <<2, 0>>, <<-2, 0>>, <<-4, 0>>, <<-2, 0>>, <<2, 0>> >> >>

FourCos(j, D) == CosTable[D][(j % D) + 1]

(***************************************************************************)
(* detect_pitch                                                            *)
(***************************************************************************)
\* np.hanning(M)[i - 1], times 8: 0.5 - 0.5*cos(2*pi*(i - 1)/(M - 1)),
\* and ones(1) for M = 1
hanning(M, i) ==
    IF M = 1 THEN <<8, 0>>
    ELSE ZAdd(<<4, 0>>, ZScale(-1, FourCos(i - 1, M - 1)))

\* audio_data * window, the first n samples
RECURSIVE Windowed(_, _)
Windowed(audio_data, n) ==
    IF n = 0 THEN << >>
    ELSE Append(Windowed(audio_data, n - 1),
                ZScale(audio_data[n], hanning(Len(audio_data), n)))

\* Circular autocorrelation of the windowed buffer at lag d, lags 0..N-1:
\* sum over n of y[n] * y[(n + d) mod N], the first n terms
RECURSIVE Lag(_, _, _)
Lag(y, d, n) ==
    IF n = 0 THEN <<0, 0>>
    ELSE ZAdd(Lag(y, d, n - 1), ZMul(y[n], y[((n - 1 + d) % Len(y)) + 1]))

RECURSIVE Lags(_, _)
Lags(y, n) ==
    IF n = 0 THEN << >>
    ELSE Append(Lags(y, n - 1), Lag(y, n - 1, Len(y)))

\* np.abs(fft(y))[k]^2 (times 256), k 0-based.  For a real buffer
\* |X_k|^2 = sum over lags d of r[d] * cos(2*pi*k*d/N); the first n lags
RECURSIVE Magnitude2(_, _, _)
Magnitude2(r, k, n) ==
    IF n = 0 THEN <<0, 0>>
    ELSE ZAdd(Magnitude2(r, k, n - 1),
              ZMul(r[n], FourCos(k * (n - 1), Len(r))))

\* magnitude = np.abs(fft_data), squared, the first n bins
RECURSIVE Bins(_, _)
Bins(r, n) ==
    IF n = 0 THEN << >>
    ELSE Append(Bins(r, n - 1), Magnitude2(r, n - 1, Len(r)))

magnitude(y) == Bins(Lags(y, Len(y)), Len(y))

\* a scan that keeps the last maximum instead
RECURSIVE ArgMaxScan_last(_, _, _)
ArgMaxScan_last(mag, i, best) ==
    IF i > Len(mag) THEN best - 1
    ELSE IF ~ZGt(mag[best], mag[i]) THEN ArgMaxScan_last(mag, i + 1, i)
    ELSE ArgMaxScan_last(mag, i + 1, best)

\* np.argmax scans from index 0 and keeps the first maximum (0-based result)
RECURSIVE ArgMaxScan(_, _, _)
ArgMaxScan(mag, i, best) ==
    IF i > Len(mag) THEN best - 1
    ELSE IF ZGt(mag[i], mag[best]) THEN ArgMaxScan(mag, i + 1, i)
    ELSE ArgMaxScan(mag, i + 1, best)

argmax(mag) == ArgMaxScan(mag, 2, 1)

\* np.fft.fftfreq(n, 1.0/sample_rate)[k], in hundredths of a Hz
fftfreq(n, sample_rate, k) ==
    IF k <= (n - 1) \div 2
    THEN (k * sample_rate * 100) \div n
    ELSE -(((n - k) * sample_rate * 100) \div n)

Abs(x) == IF x < 0 THEN -x ELSE x

\* fft() rejects an empty array with ValueError
detect_pitch(audio_data, sample_rate) ==
    IF Len(audio_data) = 0
    THEN [raised |-> "ValueError", value |-> 0]
    ELSE LET y == Windowed(audio_data, Len(audio_data))
             peak == argmax(magnitude(y))
         IN  [raised |-> "None",
              value |-> Abs(fftfreq(Len(audio_data), sample_rate, peak))]

(***************************************************************************)
(* get_note_match                                                          *)
(***************************************************************************)
\* the table with two digits of D3 transposed
NOTES_typo == [E2 |-> 8241, A2 |-> 11000, D3 |-> 14638,
               G3 |-> 19600, B3 |-> 24694, E4 |-> 32963]

NOTES == [E2 |-> 8241, A2 |-> 11000, D3 |-> 14683,
          G3 |-> 19600, B3 |-> 24694, E4 |-> 32963]

\* fixed-point layout of the binary logarithm
Half == 2 ^ 10
One == Half * Half
FracBits == 4 * 4
CentUnit == 2 ^ FracBits

Finite(v) == [kind |-> "finite", val |-> v]
NegInf == [kind |-> "-inf", val |-> 0]
NaN == [kind |-> "nan", val |-> 0]

\* p / q = m * 2^e with 1 <= m < 2: the exponent e and the scaled pair
RECURSIVE Normalize(_, _, _)
Normalize(p, q, e) ==
    IF p < q THEN Normalize(2 * p, q, e - 1)
    ELSE IF p >= 2 * q THEN Normalize(p, 2 * q, e + 1)
    ELSE <<p, q, e>>

\* mantissa floor(p * One / q) by long division, for q <= p < 2q
RECURSIVE Mantissa(_, _, _, _)
Mantissa(r, q, acc, bits) ==
    IF bits = 0 THEN acc
    ELSE IF 2 * r >= q THEN Mantissa(2 * r - q, q, 2 * acc + 1, bits - 1)
    ELSE Mantissa(2 * r, q, 2 * acc, bits - 1)

\* floor(x * x / One) for One <= x < 2 * One
Square(x) ==
    LET a == x \div Half
        b == x % Half
    IN  a * a + ((2 * a * b + ((b * b) \div Half)) \div Half)

\* fraction bits of log2(x / One) by repeated squaring
RECURSIVE LogBits(_, _, _)
LogBits(x, acc, bits) ==
    IF bits = 0 THEN acc
    ELSE LET s == Square(x)
         IN  IF s >= 2 * One
             THEN LogBits(s \div 2, 2 * acc + 1, bits - 1)
             ELSE LogBits(s, 2 * acc, bits - 1)

\* np.log2(p / q) for p, q > 0, in units of 1/CentUnit
log2(p, q) ==
    LET nm == Normalize(p, q, 0)
        x == Mantissa(nm[1] - nm[2], nm[2], 1, 2 * 10)
    IN  nm[3] * CentUnit + LogBits(x, 0, FracBits)

\* the ratio taken the wrong way round
cents_of_reversed(frequency, target_freq) ==
    IF frequency = 0 THEN NegInf
    ELSE IF frequency < 0 THEN NaN
    ELSE Finite(1200 * log2(target_freq, frequency))

\* 1200 * np.log2(frequency / target_freq): -inf at 0, nan below 0
cents_of(frequency, target_freq) ==
    IF frequency = 0 THEN NegInf
    ELSE IF frequency < 0 THEN NaN
    ELSE Finite(1200 * log2(frequency, target_freq))

\* a lookup that falls back to the low E string
get_note_match_default(frequency, target_note) ==
    LET target_freq == IF target_note \in DOMAIN NOTES
                       THEN NOTES[target_note] ELSE NOTES["E2"]
    IN  [raised |-> "None", target_freq |-> target_freq,
         cents_off |-> cents_of(frequency, target_freq)]

get_note_match(frequency, target_note) ==
    IF target_note \notin DOMAIN NOTES
    THEN [raised |-> "KeyError", target_freq |-> 0, cents_off |-> NaN]
    ELSE LET target_freq == NOTES[target_note]
         IN  [raised |-> "None", target_freq |-> target_freq,
              cents_off |-> cents_of(frequency, target_freq)]

(***************************************************************************)
(* create_tuning_meter: the needle position, max(min(cents, 50), -50)      *)
(***************************************************************************)
needle(cents) ==
    IF cents.kind = "nan" THEN NaN
    ELSE IF cents.kind = "-inf" THEN Finite(-50 * CentUnit)
    ELSE IF cents.val > 50 * CentUnit THEN Finite(50 * CentUnit)
    ELSE IF cents.val < -50 * CentUnit THEN Finite(-50 * CentUnit)
    ELSE cents

(***************************************************************************)
(* main(): the status text chosen from abs(cents)                          *)
(***************************************************************************)
\* abs(cents) <= limit, as the float comparison evaluates it
AbsLe(cents, limit) ==
    /\ cents.kind = "finite"
    /\ Abs(cents.val) <= limit * CentUnit

\* thresholds taken exclusive
status_text_strict(cents) ==
    IF AbsLe(cents, 5) /\ Abs(cents.val) # 5 * CentUnit THEN "Perfect!"
    ELSE IF AbsLe(cents, 15) /\ Abs(cents.val) # 15 * CentUnit THEN "Close!"
    ELSE "Keep adjusting!"

status_text(cents) ==
    IF AbsLe(cents, 5) THEN "Perfect!"
    ELSE IF AbsLe(cents, 15) THEN "Close!"
    ELSE "Keep adjusting!"

(***************************************************************************)
(* State.                                                                  *)
(*   is_recording, selected_note : st.session_state                        *)
(*   pending  : buttons clicked in the browser whose rerun of main() has   *)
(*              not started yet                                            *)
(*   pc       : position of the script thread in main()                    *)
(*   audio_data, frequency, expected_freq, cents : locals of the loop      *)
(*              (<<>>, 0, 0, NaN while unbound)                            *)
(*   display  : content of the placeholders status, meter and result       *)
(*   cycle    : the steps the loop has taken since it last tested          *)
(*              is_recording                                               *)
(*   aborted  : the previous run of main() was ended by a rerun request    *)
(*   call     : the last direct call of a core function and what it gave   *)
(***************************************************************************)
VARIABLES is_recording, selected_note, pending, pc, audio_data, frequency,
          expected_freq, cents, display, cycle, aborted, call

vars == <<is_recording, selected_note, pending, pc, audio_data, frequency,
          expected_freq, cents, display, cycle, aborted, call>>

appVars == <<is_recording, selected_note, pending, pc, audio_data, frequency,
             expected_freq, cents, display, cycle, aborted>>

NoteButtons == <<"E2", "A2", "D3", "G3", "B3", "E4">>

Buttons == {NoteButtons[i] : i \in 1..Len(NoteButtons)} \cup {"start", "stop"}

\* Streamlit raises a pending rerun request inside the next st.* call
YieldPoints == {"listening", "meter", "result", "ready"}

FullCycle == <<"capture", "estimate", "compare", "meter", "result">>

Buffers(n) == [1..n -> Samples]

Init ==
    /\ is_recording = FALSE
    /\ selected_note = "E2"
    /\ pending = {}
    /\ pc = "idle"
    /\ audio_data = << >>
    /\ frequency = 0
    /\ expected_freq = 0
    /\ cents = NaN
    /\ display = [status |-> "Ready to tune!", meter |-> << >>, result |-> << >>]
    /\ cycle = << >>
    /\ aborted = FALSE
    /\ call = [fn |-> "none"]

(***************************************************************************)
(* main(): one run of the script                                           *)
(***************************************************************************)
\* a loop over every widget key instead of the six note keys
RECURSIVE note_loop_any(_, _, _)
note_loop_any(clicked, current, i) ==
    IF clicked = {} THEN current ELSE CHOOSE b \in clicked : TRUE

\* for note in [...]: if st.session_state.get(note): selected_note = note
RECURSIVE note_loop(_, _, _)
note_loop(clicked, current, i) ==
    IF i > Len(NoteButtons) THEN current
    ELSE IF NoteButtons[i] \in clicked
         THEN note_loop(clicked, NoteButtons[i], i + 1)
         ELSE note_loop(clicked, current, i + 1)

\* a Stop Recording button that does not clear the flag
record_buttons_nostop(clicked, current) ==
    IF "start" \in clicked THEN TRUE ELSE current

\* the Start Recording button, then the Stop Recording button
record_buttons(clicked, current) ==
    LET started == IF "start" \in clicked THEN TRUE ELSE current
    IN  IF "stop" \in clicked THEN FALSE ELSE started

\* A button is clicked in the browser.
Click(b) ==
    /\ b \notin pending
    /\ Cardinality(pending) < MaxPending
    /\ pending' = pending \cup {b}
    /\ UNCHANGED <<is_recording, selected_note, pc, audio_data, frequency,
                   expected_freq, cents, display, cycle, aborted, call>>

\* Streamlit reruns main() for the clicked buttons: the running script is
\* ended at its next st.* call, the new run goes from the top to the loop.
Rerun ==
    /\ pending # {}
    /\ pc \in YieldPoints \cup {"idle"}
    /\ selected_note' = note_loop(pending, selected_note, 1)
    /\ is_recording' = record_buttons(pending, is_recording)
    /\ pending' = {}
    /\ aborted' = (pc # "idle")
    /\ audio_data' = << >>
    /\ frequency' = 0
    /\ expected_freq' = 0
    /\ cents' = NaN
    /\ display' = [status |-> "", meter |-> << >>, result |-> << >>]
    /\ pc' = "while"
    /\ UNCHANGED <<cycle, call>>

\* while st.session_state.is_recording:
While ==
    /\ pc = "while"
    /\ pc' = IF is_recording THEN "listening" ELSE "ready"
    /\ cycle' = << >>
    /\ aborted' = FALSE
    /\ UNCHANGED <<is_recording, selected_note, pending, audio_data, frequency,
                   expected_freq, cents, display, call>>

\* status.markdown("Listening...")
Listening ==
    /\ pc = "listening"
    /\ pending = {}
    /\ display' = [display EXCEPT !.status = "Listening..."]
    /\ pc' = "rec"
    /\ UNCHANGED <<is_recording, selected_note, pending, audio_data, frequency,
                   expected_freq, cents, cycle, aborted, call>>

\* audio_data = sd.rec(...); sd.wait(): RecLen samples stand for the
\* int(DURATION * SAMPLE_RATE) samples of a recording
Record ==
    /\ pc = "rec"
    /\ \E buf \in Buffers(RecLen) : audio_data' = buf
    /\ cycle' = <<"capture">>
    /\ pc' = "detect"
    /\ UNCHANGED <<is_recording, selected_note, pending, frequency,
                   expected_freq, cents, display, aborted, call>>

\* frequency = detect_pitch(audio_data.flatten(), SAMPLE_RATE); the buffer
\* is not read again, and the model drops it here
Detect ==
    /\ pc = "detect"
    /\ LET r == detect_pitch(audio_data, SAMPLE_RATE)
       IN  IF r.raised = "None"
           THEN /\ frequency' = r.value
                /\ cycle' = Append(cycle, "estimate")
                /\ pc' = "match"
           ELSE /\ pc' = "idle"
                /\ UNCHANGED <<frequency, cycle>>
    /\ audio_data' = << >>
    /\ UNCHANGED <<is_recording, selected_note, pending,
                   expected_freq, cents, display, aborted, call>>

\* expected_freq, cents = get_note_match(frequency, selected_note)
Match ==
    /\ pc = "match"
    /\ LET r == get_note_match(frequency, selected_note)
       IN  IF r.raised = "None"
           THEN /\ expected_freq' = r.target_freq
                /\ cents' = r.cents_off
                /\ cycle' = Append(cycle, "compare")
                /\ pc' = "meter"
           ELSE /\ pc' = "idle"
                /\ UNCHANGED <<expected_freq, cents, cycle>>
    /\ UNCHANGED <<is_recording, selected_note, pending, audio_data,
                   frequency, display, aborted, call>>

\* fig = create_tuning_meter(cents); meter.pyplot(fig)
Meter ==
    /\ pc = "meter"
    /\ pending = {}
    /\ display' = [display EXCEPT !.meter = <<needle(cents)>>]
    /\ cycle' = Append(cycle, "meter")
    /\ pc' = "result"
    /\ UNCHANGED <<is_recording, selected_note, pending, audio_data, frequency,
                   expected_freq, cents, aborted, call>>

\* the status text, result.markdown(...), time.sleep(0.1)
Result ==
    /\ pc = "result"
    /\ pending = {}
    /\ display' = [display EXCEPT !.result =
                      <<[text |-> status_text(cents), frequency |-> frequency,
                         expected_freq |-> expected_freq, cents |-> cents]>>]
    /\ cycle' = Append(cycle, "result")
    /\ pc' = "while"
    /\ UNCHANGED <<is_recording, selected_note, pending, audio_data, frequency,
                   expected_freq, cents, aborted, call>>

\* status.write("Ready to tune! ...") and the script ends
Ready ==
    /\ pc = "ready"
    /\ pending = {}
    /\ display' = [display EXCEPT !.status = "Ready to tune!"]
    /\ pc' = "idle"
    /\ UNCHANGED <<is_recording, selected_note, pending, audio_data, frequency,
                   expected_freq, cents, cycle, aborted, call>>

Next ==
    \/ \E b \in Buttons : Click(b)
    \/ Rerun
    \/ While
    \/ Listening
    \/ Record
    \/ Detect
    \/ Match
    \/ Meter
    \/ Result
    \/ Ready

Spec == Init /\ [][Next]_vars

(***************************************************************************)
(* The core functions called directly, as a test would: one call on       *)
(* inputs from bounded sets.                                               *)
(***************************************************************************)
NoteIds == DOMAIN NOTES \cup {"C4", "e2", ""}

Frequencies ==
    {-8241, -1, 0, 1}
        \cup {NOTES[n] + d : n \in DOMAIN NOTES, d \in (-MaxDetune)..MaxDetune}
        \cup {2 * NOTES[n] : n \in DOMAIN NOTES}

CentsInputs ==
    {Finite(q * (CentUnit \div 4) + d) :
        q \in (-MaxQuarterCents)..MaxQuarterCents, d \in {-1, 0, 1}}
        \cup {NegInf}

CallDetectPitch ==
    /\ call.fn = "none"
    /\ \E n \in 0..MaxBufLen : \E buf \in Buffers(n) : \E rate \in Rates :
          call' = [fn |-> "detect_pitch", audio_data |-> buf,
                   sample_rate |-> rate, ret |-> detect_pitch(buf, rate)]
    /\ UNCHANGED appVars

CallGetNoteMatch ==
    /\ call.fn = "none"
    /\ \E f \in Frequencies : \E note \in NoteIds :
          call' = [fn |-> "get_note_match", frequency |-> f,
                   target_note |-> note, ret |-> get_note_match(f, note)]
    /\ UNCHANGED appVars

CallStatusText ==
    /\ call.fn = "none"
    /\ \E c \in CentsInputs :
          call' = [fn |-> "status_text", cents |-> c, ret |-> status_text(c)]
    /\ UNCHANGED appVars

NextCore ==
    \/ CallDetectPitch
    \/ CallGetNoteMatch
    \/ CallStatusText

SpecCore == Init /\ [][NextCore]_vars

(***************************************************************************)
(* Properties of the core functions, checked under SpecCore.               *)
(***************************************************************************)

\* C1: for every note of the table and every frequency <= 0, get_note_match
\* fails with an error and returns no target frequency / cents value.
C1_NonPositiveFrequencyRejected ==
    (/\ call.fn = "get_note_match"
     /\ call.target_note \in {"E2", "A2", "D3", "G3", "B3", "E4"}
     /\ call.frequency <= 0)
        => call.ret.raised # "None"

\* C2: for every note identifier that is not one of the six keys of the table,
\* and every frequency, get_note_match raises the unknown-key error (KeyError)
\* to its caller and returns no result.
C2_UnknownNoteRaises ==
    (/\ call.fn = "get_note_match"
     /\ call.target_note \notin {"E2", "A2", "D3", "G3", "B3", "E4"})
        => call.ret.raised = "KeyError"

C2_Witness ==
    /\ call.fn = "get_note_match"
    /\ call.target_note = "C4"
    /\ call.frequency = 11000
    /\ call.ret.raised = "KeyError"

\* C3: for every buffer of fewer than 2 samples, detect_pitch fails with an
\* error instead of returning a frequency.
C3_ShortBufferRejected ==
    (call.fn = "detect_pitch" /\ Len(call.audio_data) < 2)
        => call.ret.raised # "None"

\* C4: the status band is a function of abs(cents) alone: Perfect exactly when
\* abs(cents) <= 5, Close exactly when 5 < abs(cents) <= 15, Keep adjusting
\* exactly when abs(cents) > 15; cents and -cents get the same band.
C4_QualityBand ==
    call.fn = "status_text" =>
        LET c == call.cents
            fin == c.kind = "finite"
            a == IF c.val < 0 THEN -c.val ELSE c.val
        IN  /\ call.ret = "Perfect!" <=> (fin /\ a <= 5 * CentUnit)
            /\ call.ret = "Close!"
                   <=> (fin /\ a > 5 * CentUnit /\ a <= 15 * CentUnit)
            /\ call.ret = "Keep adjusting!"
                   <=> (c.kind = "-inf" \/ (fin /\ a > 15 * CentUnit))
            /\ fin => status_text(Finite(-c.val)) = call.ret

C4_Witness ==
    /\ call.fn = "status_text"
    /\ call.cents = Finite(-15 * CentUnit)
    /\ call.ret = "Close!"

\* C5: the table has exactly the keys E2, A2, D3, G3, B3, E4 with 82.41,
\* 110.00, 146.83, 196.00, 246.94, 329.63 Hz, strictly increasing in that
\* order, and a successful call returns the table's frequency as target
\* frequency whatever the input frequency.
C5_NoteTable ==
    LET documented == [E2 |-> 8241, A2 |-> 11000, D3 |-> 14683,
                       G3 |-> 19600, B3 |-> 24694, E4 |-> 32963]
    IN  /\ DOMAIN NOTES = {"E2", "A2", "D3", "G3", "B3", "E4"}
        /\ \A n \in DOMAIN NOTES : NOTES[n] = documented[n]
        /\ \A i \in 1..5 : NOTES[NoteButtons[i]] < NOTES[NoteButtons[i + 1]]
        /\ (/\ call.fn = "get_note_match"
            /\ call.target_note \in DOMAIN documented
            /\ call.ret.raised = "None")
               => call.ret.target_freq = documented[call.target_note]

C5_Witness ==
    /\ call.fn = "get_note_match"
    /\ call.target_note = "G3"
    /\ call.frequency = 2 * 8241
    /\ call.ret.raised = "None"
    /\ call.ret.target_freq = 19600

\* C6: for every valid note with target f_t and every frequency f > 0 the
\* cents value is finite, 0 when f = f_t, 1200 when f = 2*f_t, strictly
\* positive exactly when f > f_t and strictly negative exactly when f < f_t.
C6_CentsOff ==
    (/\ call.fn = "get_note_match"
     /\ call.target_note \in {"E2", "A2", "D3", "G3", "B3", "E4"}
     /\ call.frequency > 0)
        => LET f == call.frequency
               f_t == call.ret.target_freq
               c == call.ret.cents_off
           IN  /\ call.ret.raised = "None"
               /\ c.kind = "finite"
               /\ f = f_t => c.val = 0
               /\ f = 2 * f_t => c.val = 1200 * CentUnit
               /\ c.val > 0 <=> f > f_t
               /\ c.val < 0 <=> f < f_t

C6_Witness ==
    /\ call.fn = "get_note_match"
    /\ call.target_note = "A2"
    /\ call.frequency = 22000
    /\ call.ret.cents_off = Finite(1200 * CentUnit)

\* C7: for every buffer of N >= 2 samples at rate R, detect_pitch returns the
\* absolute value of the mapped frequency of the lowest-index bin among those
\* of maximum magnitude (k*R/N for k <= N/2, the negative mirror above); the
\* result is non-negative and at most R/2, and 0 Hz for an all-zero buffer.
C7_PeakBin ==
    (call.fn = "detect_pitch" /\ Len(call.audio_data) >= 2) =>
        LET N == Len(call.audio_data)
            R == call.sample_rate
            value == call.ret.value
            mapped(k) == IF 2 * k <= N THEN (k * R * 100) \div N
                         ELSE -(((N - k) * R * 100) \div N)
        IN  /\ call.ret.raised = "None"
            /\ \E mag \in {magnitude(Windowed(call.audio_data, N))} :
                  \E k \in 0..(N - 1) :
                      /\ \A j \in 1..N : ~ZGt(mag[j], mag[k + 1])
                      /\ \A j \in 1..k : ZGt(mag[k + 1], mag[j])
                      /\ value = (IF mapped(k) < 0 THEN -mapped(k) ELSE mapped(k))
            /\ value >= 0
            /\ 2 * value <= R * 100
            /\ (\A i \in 1..N : call.audio_data[i] = 0) => value = 0

C7_Witness ==
    /\ call.fn = "detect_pitch"
    /\ call.audio_data = <<0, 1, 0, -1, 0>>
    /\ call.sample_rate = SAMPLE_RATE
    /\ call.ret = [raised |-> "None", value |-> 882000]

(***************************************************************************)
(* Properties of the recording loop, checked under Spec.                   *)
(***************************************************************************)

\* C8: the loop never calls get_note_match with a 0 Hz estimate, so no meter
\* or result is computed or displayed from a 0 Hz estimate.
C8_SilenceGuarded ==
    /\ pc \in {"meter", "result"} => frequency # 0
    /\ display.result # << >> => display.result[1].frequency # 0

C10_SelectedNoteValid ==
    /\ selected_note = "E2"
    /\ [](selected_note \in {"E2", "A2", "D3", "G3", "B3", "E4"})
    /\ [][/\ selected_note' # selected_note =>
                /\ selected_note' \in pending
                /\ pending' = {}
          /\ (pending \cap {"E2", "A2", "D3", "G3", "B3", "E4"} = {}) =>
                selected_note' = selected_note
          /\ (pc = "match" /\ pc' # "match") =>
                /\ pc' = "meter"
                /\ expected_freq' = NOTES[selected_note]
         ]_vars

C10_Witness ==
    /\ selected_note = "B3"
    /\ pc = "meter"
    /\ is_recording
    /\ expected_freq = 24694

====
